---- MODULE Spec2Model ----
(***************************************************************************)
(* Model of the conversation session kept by CodeReviewAgent (agent.py).   *)
(*                                                                         *)
(* A session is the pair (history, last_code).  The program is single      *)
(* threaded and every public method runs to completion before the next     *)
(* one starts, so each method is one action.  Besides the session the      *)
(* model records, for the most recent method call, its name and arguments  *)
(* (op), the session before the call (pre), what the call gave back to     *)
(* its caller (out) and the collaborator invocations it made (calls).      *)
(*                                                                         *)
(* Spec is the session driven by any caller of its methods, in any order.  *)
(* SpecMain is the program started from main(): build_client, then the     *)
(* single-shot path or the interactive loop.                               *)
(*                                                                         *)
(* Texts are strings; file paths are tuples of one-character strings so    *)
(* that os.path.splitext can be computed.  The non-ASCII marks that the    *)
(* program puts in front of its error strings are written "[x] ", and     *)
(* the fence of three backquotes around reviewed code is written with      *)
(* three apostrophes (neither can appear in a string of this language).    *)
(***************************************************************************)
EXTENDS Integers, Sequences, FiniteSets, TLC

VARIABLES history, last_code, op, pre, out, calls,
          origin, failures,
          pc, env, argv, client, line

\* the session and the record of the call made last
session == <<history, last_code, op, pre, out, calls>>

\* bookkeeping about the history: for each message, the method that built
\* it ("reply" for an assistant message); and the number of collaborator
\* calls that failed since the history was last rebuilt
ghost == <<origin, failures>>

\* the process around the session: where it is (pc), its environment and
\* command line, the client and model name __init__ stored, and the line
\* the interactive loop read last
proc == <<pc, env, argv, client, line>>

vars == <<history, last_code, op, pre, out, calls, origin, failures,
          pc, env, argv, client, line>>

(***************************************************************************)
(* Bounds of the model.                                                    *)
(***************************************************************************)
\* longest history explored (system message included)
MaxHist == 5

(***************************************************************************)
(* Python values.                                                          *)
(***************************************************************************)
\* Optional[str]: None is the empty tuple, a string s is <<s>>
None == <<>>

Some(s) == <<s>>

\* truth value of an Optional[str]: None and the empty string are falsy
Truthy(v) == v # None /\ v[1] # ""

\* truth value of an optional path: None and the empty path are falsy
TruthyPath(v) == v # None /\ v[1] # <<>>

\* "".join(chars)
RECURSIVE Join(_)
Join(chars) == IF chars = <<>> THEN "" ELSE Head(chars) \o Join(Tail(chars))

\* an exception object: its class and str(e)
Exc(type, msg) == [type |-> type, msg |-> msg]

NoExc == Exc("", "")

\* sys.exit(1)
SystemExit == Exc("SystemExit", "1")

\* isinstance(e, Exception): true of every class the model raises but SystemExit
IsException(e) == e.type \in {"FileNotFoundError", "PermissionError",
                              "UnicodeDecodeError", "APIConnectionError"}

\* how a call ends: it returns a value (None or a string) or raises
Return(v) == [kind |-> "return", val |-> v, exc |-> NoExc]

Raise(e) == [kind |-> "raise", val |-> None, exc |-> e]

(***************************************************************************)
(* Fixed texts of the program.                                             *)
(***************************************************************************)
\* the instruction text, a constant of the program; its opening sentence stands for the whole
SYSTEM_PROMPT == "You are **CodeReview Agent**, an expert AI assistant specialised in reviewing code."

EXPLAIN_PROMPT == "Can you explain what the last reviewed code does in simple terms?"

NO_CODE_REPLY == "No code has been reviewed yet. Please review some code first."

DEFAULT_LANGUAGE == "auto-detect"

Message(role, content) == [role |-> role, content |-> content]

\* the history built by __init__ and rebuilt by clear_session
InitialHistory == <<Message("system", SYSTEM_PROMPT)>>

\* the fence of three backquotes that opens and closes the code block
FENCE == "'''"

\* f"Please review the following {language} code:\n\n{FENCE}\n{code}\n{FENCE}"
ReviewPrompt(code, language) ==
    "Please review the following " \o language \o " code:\n\n" \o FENCE \o "\n"
        \o code \o "\n" \o FENCE

FileNotFoundText(file_path) == "[x] File not found: " \o Join(file_path)

ErrorReadingText(e) == "[x] Error reading file: " \o e.msg

(***************************************************************************)
(* Inputs: the texts callers pass, the files on disk and what the          *)
(* completion endpoint answers.                                            *)
(***************************************************************************)
\* free text; a user may type the very question explain_last asks
UserMessages == {"What is a race condition?", EXPLAIN_PROMPT}

Codes == {"", "x = 1/0"}

Languages == {DEFAULT_LANGUAGE, "JavaScript"}

Replies == {"Summary: Needs Work", "Summary: Pass"}

ApiError == Exc("APIConnectionError", "Connection error.")

\* one invocation of client.chat.completions.create: a reply or an error
Outcomes == {[ok |-> TRUE, reply |-> r, exc |-> NoExc] : r \in Replies}
            \cup {[ok |-> FALSE, reply |-> "", exc |-> ApiError]}

MainPy == <<"m", "a", "i", "n", ".", "p", "y">>

EmptyFile == <<"e", "m", "p", "t", "y">>

MissingPy == <<"/", "n", "o", "/", "f", ".", "p", "y">>

LockedJs == <<"l", "o", "c", "k", ".", "j", "s">>

BinaryX == <<".", "b", "i", "n">>

NotesTxt == <<"n", ".", "t", "x", "t">>

Paths == {MainPy, EmptyFile, MissingPy, LockedJs, BinaryX, NotesTxt}

\* open(file_path, "r", encoding="utf-8") followed by f.read()
OpenRead(file_path) ==
    CASE file_path = MainPy    -> [ok |-> TRUE, data |-> "x = 1/0", exc |-> NoExc]
      [] file_path = EmptyFile -> [ok |-> TRUE, data |-> "", exc |-> NoExc]
      [] file_path = NotesTxt  -> [ok |-> TRUE, data |-> "x = 1/0", exc |-> NoExc]
      [] file_path = LockedJs  -> [ok |-> FALSE, data |-> "",
                                   exc |-> Exc("PermissionError", "[Errno 13] Permission denied")]
      [] file_path = BinaryX   -> [ok |-> FALSE, data |-> "",
                                   exc |-> Exc("UnicodeDecodeError", "invalid start byte")]
      [] OTHER                 -> [ok |-> FALSE, data |-> "",
                                   exc |-> Exc("FileNotFoundError", "[Errno 2] No such file or directory")]

(***************************************************************************)
(* Extension of a path and its language label.                             *)
(***************************************************************************)
\* str.rfind as a 1-based position, 0 when the character does not occur
RFind(p, ch) ==
    LET hits == {i \in 1..Len(p) : p[i] = ch}
    IN  IF hits = {} THEN 0 ELSE CHOOSE i \in hits : \A j \in hits : j <= i

\* os.path.splitext(p)[1]
SplitExt(p) ==
    LET sepIndex == RFind(p, "/")
        dotIndex == RFind(p, ".")
    IN  IF /\ dotIndex > sepIndex
           /\ \E k \in (sepIndex + 1)..(dotIndex - 1) : p[k] # "."
        THEN SubSeq(p, dotIndex, Len(p))
        ELSE <<>>

\* str.lstrip(ch)
RECURSIVE LStrip(_, _)
LStrip(p, ch) == IF p # <<>> /\ Head(p) = ch THEN LStrip(Tail(p), ch) ELSE p

\* lang_map.get(ext, ext or "unknown")
LangMapGet(ext) ==
    CASE ext = "py"   -> "Python"
      [] ext = "js"   -> "JavaScript"
      [] ext = "ts"   -> "TypeScript"
      [] ext = "java" -> "Java"
      [] ext = "cs"   -> "C#"
      [] ext = "go"   -> "Go"
      [] ext = "rs"   -> "Rust"
      [] ext = "cpp"  -> "C++"
      [] ext = "c"    -> "C"
      [] ext = "rb"   -> "Ruby"
      [] ext = "php"  -> "PHP"
      [] OTHER        -> IF ext # "" THEN ext ELSE "unknown"

\* the language label computed without stripping the dot of the extension
LanguageOf_keepsDot(file_path) == LangMapGet(Join(SplitExt(file_path)))

LanguageOf(file_path) == LangMapGet(Join(LStrip(SplitExt(file_path), ".")))

(***************************************************************************)
(* The methods of CodeReviewAgent.  Each takes the session s =             *)
(* [history, last_code], its arguments and the outcome `create` the        *)
(* completion endpoint would give if invoked, and yields the session       *)
(* after the call, how the call ended and the invocations it made.         *)
(***************************************************************************)
Session(h, lc) == [history |-> h, last_code |-> lc]

Result(h, lc, o, cs) == [history |-> h, last_code |-> lc, out |-> o, calls |-> cs]

Invocation(messages, create) == [messages |-> messages, result |-> create]

\* __init__, after build_client returned a client
NewSession == Session(InitialHistory, None)

\* chat with the two appends of a successful exchange in the wrong order
chat_replyFirst(s, user_message, create) ==
    LET asked == Append(s.history, Message("user", user_message))
    IN  IF create.ok
        THEN Result(Append(Append(s.history, Message("assistant", create.reply)),
                           Message("user", user_message)),
                    s.last_code, Return(Some(create.reply)), <<Invocation(asked, create)>>)
        ELSE Result(asked, s.last_code, Raise(create.exc), <<Invocation(asked, create)>>)

\* chat that takes the user message back when the endpoint fails
chat_rollback(s, user_message, create) ==
    LET asked == Append(s.history, Message("user", user_message))
    IN  IF create.ok
        THEN Result(Append(asked, Message("assistant", create.reply)), s.last_code,
                    Return(Some(create.reply)), <<Invocation(asked, create)>>)
        ELSE Result(s.history, s.last_code, Raise(create.exc), <<Invocation(asked, create)>>)

\* chat that files the user's text under the system role
chat_systemRole(s, user_message, create) ==
    LET asked == Append(s.history, Message("system", user_message))
    IN  IF create.ok
        THEN Result(Append(asked, Message("assistant", create.reply)), s.last_code,
                    Return(Some(create.reply)), <<Invocation(asked, create)>>)
        ELSE Result(asked, s.last_code, Raise(create.exc), <<Invocation(asked, create)>>)

\* chat that keeps only the system message and the newest exchange
chat_trims(s, user_message, create) ==
    LET asked == Append(s.history, Message("user", user_message))
        kept  == <<Head(s.history), Message("user", user_message)>>
    IN  IF create.ok
        THEN Result(Append(kept, Message("assistant", create.reply)), s.last_code,
                    Return(Some(create.reply)), <<Invocation(asked, create)>>)
        ELSE Result(kept, s.last_code, Raise(create.exc), <<Invocation(asked, create)>>)

\* chat that sends the system message and the new user message only
chat_sendsLatest(s, user_message, create) ==
    LET asked == Append(s.history, Message("user", user_message))
        sent  == <<Head(s.history), Message("user", user_message)>>
    IN  IF create.ok
        THEN Result(Append(asked, Message("assistant", create.reply)), s.last_code,
                    Return(Some(create.reply)), <<Invocation(sent, create)>>)
        ELSE Result(asked, s.last_code, Raise(create.exc), <<Invocation(sent, create)>>)

chat(s, user_message, create) ==
    LET asked == Append(s.history, Message("user", user_message))
    IN  IF create.ok
        THEN Result(Append(asked, Message("assistant", create.reply)), s.last_code,
                    Return(Some(create.reply)), <<Invocation(asked, create)>>)
        ELSE Result(asked, s.last_code, Raise(create.exc), <<Invocation(asked, create)>>)

\* review_code that remembers the prompt it built instead of the code
review_code_storesPrompt(s, code, language, create) ==
    chat(Session(s.history, Some(ReviewPrompt(code, language))),
         ReviewPrompt(code, language), create)

\* review_code that records the code only once the review came back
review_code_setsAfter(s, code, language, create) ==
    LET r == chat(s, ReviewPrompt(code, language), create)
    IN  IF create.ok THEN [r EXCEPT !.last_code = Some(code)] ELSE r

review_code(s, code, language, create) ==
    chat(Session(s.history, Some(code)), ReviewPrompt(code, language), create)

\* review_file without its FileNotFoundError clause
review_file_oneHandler(s, file_path, create) ==
    LET f == OpenRead(file_path)
        r == IF f.ok
             THEN review_code(s, f.data, LanguageOf(file_path), create)
             ELSE Result(s.history, s.last_code, Raise(f.exc), <<>>)
    IN  IF r.out.kind = "raise" /\ IsException(r.out.exc)
        THEN [r EXCEPT !.out = Return(Some(ErrorReadingText(r.out.exc)))]
        ELSE r

review_file(s, file_path, create) ==
    LET f == OpenRead(file_path)
        r == IF f.ok
             THEN review_code(s, f.data, LanguageOf(file_path), create)
             ELSE Result(s.history, s.last_code, Raise(f.exc), <<>>)
    IN  IF r.out.kind = "raise" /\ r.out.exc.type = "FileNotFoundError"
        THEN [r EXCEPT !.out = Return(Some(FileNotFoundText(file_path)))]
        ELSE IF r.out.kind = "raise" /\ IsException(r.out.exc)
        THEN [r EXCEPT !.out = Return(Some(ErrorReadingText(r.out.exc)))]
        ELSE r

\* explain_last without its check of last_code
explain_last_unchecked(s, create) == chat(s, EXPLAIN_PROMPT, create)

explain_last(s, create) ==
    IF ~Truthy(s.last_code)
    THEN Result(s.history, s.last_code, Return(Some(NO_CODE_REPLY)), <<>>)
    ELSE chat(s, EXPLAIN_PROMPT, create)

\* clear_session that forgets to reset last_code
clear_session_keepsCode(s) == Result(InitialHistory, s.last_code, Return(None), <<>>)

clear_session(s) == Result(InitialHistory, None, Return(None), <<>>)

\* print(result): the value a review returned is shown, nothing is returned
Printed(r) == IF r.out.kind = "return" THEN [r EXCEPT !.out = Return(None)] ELSE r

\* run_single that looks at the code argument before the file argument
run_single_codeFirst(s, file_path, code, create) ==
    IF Truthy(code)
    THEN Printed(review_code(s, code[1], DEFAULT_LANGUAGE, create))
    ELSE IF TruthyPath(file_path)
    THEN Printed(review_file(s, file_path[1], create))
    ELSE Result(s.history, s.last_code, Raise(SystemExit), <<>>)

run_single(s, file_path, code, create) ==
    IF TruthyPath(file_path)
    THEN Printed(review_file(s, file_path[1], create))
    ELSE IF Truthy(code)
    THEN Printed(review_code(s, code[1], DEFAULT_LANGUAGE, create))
    ELSE Result(s.history, s.last_code, Raise(SystemExit), <<>>)

(***************************************************************************)
(* The state machine: any caller, any order of calls.                      *)
(***************************************************************************)
Current == Session(history, last_code)

\* room for one more exchange within the explored history length
CanGrow == Len(history) + 2 <= MaxHist

\* the method that calls chat when the method named name is entered
Builder(name) ==
    CASE name = "chat"         -> "chat"
      [] name = "explain_last" -> "explain_last"
      [] OTHER                 -> "review_code"

\* a call named name with arguments args ends as r
Commit(name, args, r) ==
    /\ history' = r.history
    /\ last_code' = r.last_code
    /\ op' = [name |-> name, args |-> args]
    /\ pre' = Current
    /\ out' = r.out
    /\ calls' = r.calls
    /\ origin' = IF name = "clear_session" THEN <<"__init__">>
                 ELSE IF r.calls = <<>> THEN origin
                 ELSE IF r.calls[1].result.ok
                 THEN origin \o <<Builder(name), "reply">>
                 ELSE Append(origin, Builder(name))
    /\ failures' = IF name = "clear_session" THEN 0
                   ELSE IF r.calls # <<>> /\ ~r.calls[1].result.ok
                   THEN failures + 1 ELSE failures

\* the environment of a caller that constructed the session itself
CallerEnv ==
    [OPENAI_API_KEY |-> Some("sk-test"), OPENAI_MODEL |-> None,
     GITHUB_TOKEN |-> None, AZURE_OPENAI_ENDPOINT |-> None]

NoArgs == [file |-> None, code |-> None]

Init ==
    /\ history = NewSession.history
    /\ last_code = NewSession.last_code
    /\ op = [name |-> "__init__", args |-> <<>>]
    /\ pre = NewSession
    /\ out = Return(None)
    /\ calls = <<>>
    /\ origin = <<"__init__">>
    /\ failures = 0
    /\ pc = "called"
    /\ env = CallerEnv
    /\ argv = NoArgs
    /\ client = Some([api_key |-> "sk-test", model |-> "gpt-4"])
    /\ line = None

Chat ==
    /\ CanGrow
    /\ \E m \in UserMessages, create \in Outcomes :
           Commit("chat", <<m>>, chat(Current, m, create))
    /\ UNCHANGED proc

ReviewCode ==
    /\ CanGrow
    /\ \E c \in Codes, lang \in Languages, create \in Outcomes :
           Commit("review_code", <<c, lang>>, review_code(Current, c, lang, create))
    /\ UNCHANGED proc

ReviewFile ==
    \E p \in Paths :
        /\ OpenRead(p).ok => CanGrow
        /\ \E create \in Outcomes :
               Commit("review_file", <<p>>, review_file(Current, p, create))
        /\ UNCHANGED proc

ExplainLast ==
    /\ Truthy(last_code) => CanGrow
    /\ \E create \in Outcomes :
           Commit("explain_last", <<>>, explain_last(Current, create))
    /\ UNCHANGED proc

ClearSession ==
    LET r == clear_session(Current)
    IN  /\ history' = r.history
        /\ last_code' = r.last_code
        /\ op' = [name |-> "clear_session", args |-> <<>>]
        /\ pre' = Current
        /\ out' = r.out
        /\ calls' = r.calls
        /\ origin' = <<"__init__">>
        /\ failures' = 0
        /\ UNCHANGED proc

\* the optional arguments callers pass to run_single: file_path, code
SingleArgs ==
    { <<None, None>>, <<Some(<<>>), Some("")>>, <<Some(<<>>), Some("x = 1/0")>>,
      <<Some(MainPy), None>>, <<Some(MissingPy), Some("x = 1/0")>>,
      <<None, Some("x = 1/0")>> }

\* run_single with these arguments reaches the collaborator
SingleCalls(file_path, code) ==
    IF TruthyPath(file_path) THEN OpenRead(file_path[1]).ok ELSE Truthy(code)

RunSingle ==
    \E a \in SingleArgs :
        /\ SingleCalls(a[1], a[2]) => CanGrow
        /\ \E create \in Outcomes :
               Commit("run_single", a, run_single(Current, a[1], a[2], create))
        /\ UNCHANGED proc

Next == Chat \/ ReviewCode \/ ReviewFile \/ ExplainLast \/ ClearSession \/ RunSingle

Spec == Init /\ [][Next]_vars

(***************************************************************************)
(* The program started from main().                                        *)
(***************************************************************************)
\* os.getenv(name, default) on an optional value
GetEnv(v, default) == IF v = None THEN default ELSE v[1]

\* build_client that takes any OPENAI_API_KEY that is set, even an empty one
build_client_anyKey(e) ==
    IF e.OPENAI_API_KEY # None
    THEN [out |-> Return(None),
          client |-> Some([api_key |-> e.OPENAI_API_KEY[1],
                           model |-> GetEnv(e.OPENAI_MODEL, "gpt-4")])]
    ELSE [out |-> Raise(SystemExit), client |-> None]

build_client(e) ==
    IF Truthy(e.OPENAI_API_KEY)
    THEN [out |-> Return(None),
          client |-> Some([api_key |-> e.OPENAI_API_KEY[1],
                           model |-> GetEnv(e.OPENAI_MODEL, "gpt-4")])]
    ELSE [out |-> Raise(SystemExit), client |-> None]

\* characters str.strip() removes
Whitespace == {" ", "\t"}

RECURSIVE LStripWs(_)
LStripWs(cs) == IF cs # <<>> /\ Head(cs) \in Whitespace THEN LStripWs(Tail(cs)) ELSE cs

RECURSIVE RStripWs(_)
RStripWs(cs) ==
    IF cs # <<>> /\ cs[Len(cs)] \in Whitespace
    THEN RStripWs(SubSeq(cs, 1, Len(cs) - 1))
    ELSE cs

\* str.strip()
Strip(cs) == RStripWs(LStripWs(cs))

UpperCase == <<"A", "B", "C", "D", "E", "F", "G", "H", "I", "J", "K", "L", "M",
               "N", "O", "P", "Q", "R", "S", "T", "U", "V", "W", "X", "Y", "Z">>

LowerCase == <<"a", "b", "c", "d", "e", "f", "g", "h", "i", "j", "k", "l", "m",
               "n", "o", "p", "q", "r", "s", "t", "u", "v", "w", "x", "y", "z">>

\* str.lower()
Lower(cs) ==
    [i \in 1..Len(cs) |->
        IF \E k \in 1..26 : UpperCase[k] = cs[i]
        THEN LowerCase[CHOOSE k \in 1..26 : UpperCase[k] = cs[i]]
        ELSE cs[i]]

\* str.startswith(prefix)
StartsWith(cs, prefix) ==
    Len(cs) >= Len(prefix) /\ SubSeq(cs, 1, Len(prefix)) = prefix

\* s[n:] for the 0-based position n
From(cs, n) == SubSeq(cs, n + 1, Len(cs))

WordExit == <<"e", "x", "i", "t">>

WordQuit == <<"q", "u", "i", "t">>

WordClear == <<"c", "l", "e", "a", "r">>

WordExplain == <<"e", "x", "p", "l", "a", "i", "n">>

PrefixFile == <<"f", "i", "l", "e", " ">>

PrefixReview == <<"r", "e", "v", "i", "e", "w", " ">>

\* one pass of the loop of run_interactive that read a line: the session
\* method it invokes (none for a blank line and for exit), how that ends,
\* and whether the loop goes on
Step(name, args, r, next) == [name |-> name, args |-> args, r |-> r, next |-> next]

Untouched(s) == Result(s.history, s.last_code, Return(None), <<>>)

\* the loop matching the commands on the line as typed, not lower-cased
repl_step_caseSensitive(s, raw, create) ==
    LET user_input == Strip(raw)
        lower      == user_input
    IN  IF user_input = <<>> THEN Step("none", <<>>, Untouched(s), "continue")
        ELSE IF lower \in {WordExit, WordQuit}
        THEN Step("none", <<>>, Untouched(s), "break")
        ELSE IF lower = WordClear
        THEN Step("clear_session", <<>>, clear_session(s), "continue")
        ELSE IF lower = WordExplain
        THEN Step("explain_last", <<>>, explain_last(s, create), "continue")
        ELSE IF StartsWith(lower, PrefixFile)
        THEN LET path == Strip(From(user_input, 5))
             IN  Step("review_file", <<path>>, review_file(s, path, create), "continue")
        ELSE IF StartsWith(lower, PrefixReview)
        THEN LET code == Join(Strip(From(user_input, 7)))
             IN  Step("review_code", <<code, DEFAULT_LANGUAGE>>,
                      review_code(s, code, DEFAULT_LANGUAGE, create), "continue")
        ELSE Step("chat", <<Join(user_input)>>,
                  chat(s, Join(user_input), create), "continue")

repl_step(s, raw, create) ==
    LET user_input == Strip(raw)
        lower      == Lower(user_input)
    IN  IF user_input = <<>> THEN Step("none", <<>>, Untouched(s), "continue")
        ELSE IF lower \in {WordExit, WordQuit}
        THEN Step("none", <<>>, Untouched(s), "break")
        ELSE IF lower = WordClear
        THEN Step("clear_session", <<>>, clear_session(s), "continue")
        ELSE IF lower = WordExplain
        THEN Step("explain_last", <<>>, explain_last(s, create), "continue")
        ELSE IF StartsWith(lower, PrefixFile)
        THEN LET path == Strip(From(user_input, 5))
             IN  Step("review_file", <<path>>, review_file(s, path, create), "continue")
        ELSE IF StartsWith(lower, PrefixReview)
        THEN LET code == Join(Strip(From(user_input, 7)))
             IN  Step("review_code", <<code, DEFAULT_LANGUAGE>>,
                      review_code(s, code, DEFAULT_LANGUAGE, create), "continue")
        ELSE Step("chat", <<Join(user_input)>>,
                  chat(s, Join(user_input), create), "continue")

\* environments the program is started in
Environment(key, model, token) ==
    [OPENAI_API_KEY |-> key, OPENAI_MODEL |-> model,
     GITHUB_TOKEN |-> token, AZURE_OPENAI_ENDPOINT |-> None]

Envs ==
    { Environment(None, None, None),
      Environment(None, Some("gpt-4o"), Some("test-token")),
      Environment(Some(""), None, None),
      Environment(Some("sk-test"), None, None),
      Environment(Some("sk-test"), Some("gpt-4o"), None) }

\* command lines: args.file and args.code as argparse leaves them
Argvs ==
    { NoArgs,
      [file |-> Some(<<>>), code |-> Some("")],
      [file |-> Some(MainPy), code |-> None],
      [file |-> None, code |-> Some("x = 1/0")],
      [file |-> Some(MissingPy), code |-> Some("x = 1/0")] }

\* lines the user types at the prompt
LineBlank == <<" ", " ">>

LineExit == <<"e", "x", "i", "t">>

LineQuit == <<" ", "Q", "u", "i", "t", " ">>

LineClear == <<"C", "L", "E", "A", "R">>

LineExplain == <<"e", "x", "p", "l", "a", "i", "n">>

LineFile == <<"f", "i", "l", "e", " ", " ">> \o MainPy

LineFileMissing == <<"F", "i", "l", "e", " ">> \o MissingPy \o <<" ">>

LineReview == <<"r", "e", "v", "i", "e", "w", " ", "x", " ", "=", " ", "1", "/", "0">>

LineReviewBare == <<"R", "e", "v", "i", "e", "w", " ">>

LineChat == <<" ", "H", "i">>

Lines == {LineBlank, LineExit, LineQuit, LineClear, LineExplain, LineFile,
          LineFileMissing, LineReview, LineReviewBare, LineChat}

InitMain ==
    /\ history = <<>>
    /\ last_code = None
    /\ op = [name |-> "none", args |-> <<>>]
    /\ pre = Session(<<>>, None)
    /\ out = Return(None)
    /\ calls = <<>>
    /\ origin = <<>>
    /\ failures = 0
    /\ pc = "start"
    /\ env \in Envs
    /\ argv \in Argvs
    /\ client = None
    /\ line = None

\* agent = CodeReviewAgent(): build_client, then the two assignments
Construct ==
    /\ pc = "start"
    /\ LET built == build_client(env)
       IN  IF built.out.kind = "raise"
           THEN /\ pc' = "exited"
                /\ out' = built.out
                /\ UNCHANGED <<history, last_code, op, pre, calls, ghost,
                               env, argv, client, line>>
           ELSE /\ pc' = "constructed"
                /\ client' = built.client
                /\ history' = NewSession.history
                /\ last_code' = NewSession.last_code
                /\ op' = [name |-> "__init__", args |-> <<>>]
                /\ pre' = NewSession
                /\ origin' = <<"__init__">>
                /\ UNCHANGED <<out, calls, failures, env, argv, line>>

\* main's test `args.file or args.code`
SingleShot == TruthyPath(argv.file) \/ Truthy(argv.code)

MainSingle ==
    /\ pc = "constructed"
    /\ SingleShot
    /\ \E create \in Outcomes :
           LET r == run_single(Current, argv.file, argv.code, create)
           IN  /\ Commit("run_single", <<argv.file, argv.code>>, r)
               /\ pc' = IF r.out.kind = "return" THEN "done" ELSE "crashed"
    /\ UNCHANGED <<env, argv, client, line>>

MainInteractive ==
    /\ pc = "constructed"
    /\ ~SingleShot
    /\ pc' = "repl"
    /\ UNCHANGED <<session, ghost, env, argv, client, line>>

\* input() returned a line
ReplLine ==
    /\ pc = "repl"
    /\ \E l \in Lines, create \in Outcomes :
           LET st == repl_step(Current, l, create)
           IN  /\ (st.r.calls # <<>>) => CanGrow
               /\ Commit(st.name, st.args, st.r)
               /\ line' = Some(l)
               /\ pc' = IF st.r.out.kind = "raise" THEN "crashed"
                        ELSE IF st.next = "break" THEN "done" ELSE "repl"
    /\ UNCHANGED <<env, argv, client>>

\* input() raised EOFError or KeyboardInterrupt
ReplEof ==
    /\ pc = "repl"
    /\ pc' = "done"
    /\ line' = None
    /\ UNCHANGED <<session, ghost, env, argv, client>>

NextMain == Construct \/ MainSingle \/ MainInteractive \/ ReplLine \/ ReplEof

SpecMain == InitMain /\ [][NextMain]_vars

(***************************************************************************)
(* Shape of the state.                                                     *)
(***************************************************************************)
Roles == {"system", "user", "assistant"}

TypeOK ==
    /\ \A i \in 1..Len(history) : history[i].role \in Roles
    /\ Len(history) <= MaxHist
    /\ Len(last_code) <= 1
    /\ out.kind \in {"return", "raise"}
    /\ Len(calls) <= 1

\* the call just made invoked the collaborator, which answered / failed
Succeeded == calls # <<>> /\ calls[1].result.ok

Failed == calls # <<>> /\ ~calls[1].result.ok

Grew(n) == Len(history) = Len(pre.history) + n

\* the last message of a non-empty sequence
Last(h) == h[Len(h)]

\* the roles of a history, in order
RolesOf(h) == [i \in 1..Len(h) |-> h[i].role]

(***************************************************************************)
(* Claims.                                                                 *)
(***************************************************************************)

\* C1: in every reachable state the history is non-empty, its first element
\* is the system message carrying the fixed instruction text, and no other
\* element has role system.
C1_SystemMessageFirst ==
    /\ Len(history) >= 1
    /\ history[1] = Message("system", SYSTEM_PROMPT)
    /\ \A i \in 2..Len(history) : history[i].role # "system"

\* a history holding an unanswered turn of a failed call and then a full exchange
C1_Witness ==
    /\ Len(history) >= 4
    /\ RolesOf(SubSeq(history, 1, 4)) = <<"system", "user", "user", "assistant">>

\* C2: a chat(m) call answered with reply r leaves the history equal to the
\* previous history followed by {user, m} then {assistant, r}, returns r and
\* leaves last_code unchanged.
C2_ChatSuccess ==
    (op.name = "chat" /\ Succeeded) =>
        /\ history = pre.history \o <<Message("user", op.args[1]),
                                      Message("assistant", calls[1].result.reply)>>
        /\ out = Return(Some(calls[1].result.reply))
        /\ last_code = pre.last_code

\* an answered chat in a session that already has exchanges and a reviewed code
C2_Witness ==
    /\ op.name = "chat" /\ Succeeded
    /\ Len(pre.history) > 1
    /\ pre.last_code # None

\* C3: when the collaborator fails during chat(m) it was invoked exactly once,
\* the failure reaches the caller, and the history is the previous history
\* followed by the single message {user, m}, an unanswered user turn.
C3_ChatFailure ==
    (op.name = "chat" /\ Failed) =>
        /\ Len(calls) = 1
        /\ out = Raise(calls[1].result.exc)
        /\ history = Append(pre.history, Message("user", op.args[1]))
        /\ Last(history).role = "user"
        /\ last_code = pre.last_code

\* a failed chat after at least one earlier message
C3_Witness ==
    /\ op.name = "chat" /\ Failed
    /\ Len(pre.history) > 1

\* C4: an answered review_code(c, lang) leaves last_code equal to c, the same
\* for every lang, and lengthens the history by a user message then an
\* assistant message; from a new session the history has length 3 with roles
\* system, user, assistant.
C4_ReviewCodeSuccess ==
    (op.name = "review_code" /\ Succeeded) =>
        /\ last_code = Some(op.args[1])
        /\ \A lang \in Languages :
               review_code(pre, op.args[1], lang, calls[1].result).last_code = last_code
        /\ Grew(2)
        /\ SubSeq(history, 1, Len(pre.history)) = pre.history
        /\ RolesOf(SubSeq(history, Len(pre.history) + 1, Len(history)))
               = <<"user", "assistant">>
        /\ (pre = NewSession =>
               /\ Len(history) = 3
               /\ RolesOf(history) = <<"system", "user", "assistant">>)

\* an answered review with an explicit language that replaces an earlier last_code
C4_Witness ==
    /\ op.name = "review_code" /\ Succeeded
    /\ op.args[2] # DEFAULT_LANGUAGE
    /\ pre.last_code # None
    /\ pre.last_code # Some(op.args[1])

\* C5: from any reachable state clear_session yields the state of a new
\* session (the single system message, last_code unset), and a second
\* clear_session changes nothing.
C5_ClearResets ==
    LET once  == clear_session(Current)
        twice == clear_session(Session(once.history, once.last_code))
    IN  /\ Session(once.history, once.last_code) = NewSession
        /\ Session(twice.history, twice.last_code) = Session(once.history, once.last_code)
        /\ (op.name = "clear_session" => Current = NewSession)

\* a clear of a session that had a reviewed code and an unanswered user turn
C5_Witness ==
    /\ op.name = "clear_session"
    /\ pre.last_code # None
    /\ Len(pre.history) > 1
    /\ Last(pre.history).role = "user"

\* the file named by the review_file call just made does not exist
PathMissing ==
    /\ ~OpenRead(op.args[1]).ok
    /\ OpenRead(op.args[1]).exc.type = "FileNotFoundError"

\* the exceptions the model raises
Exceptions ==
    {OpenRead(p).exc : p \in {q \in Paths : ~OpenRead(q).ok}}
        \cup {o.exc : o \in {x \in Outcomes : ~x.ok}}

\* the call just made returned one of review_file's two error strings
ReturnedErrorString ==
    /\ out.kind = "return"
    /\ out.val # None
    /\ \/ out.val[1] = FileNotFoundText(op.args[1])
       \/ \E e \in Exceptions : out.val[1] = ErrorReadingText(e)

\* C6: review_file on a path that does not exist returns the 'File not found'
\* string instead of raising, makes no collaborator call, and leaves the
\* history and last_code as they were.
C6_MissingFile ==
    (op.name = "review_file" /\ PathMissing) =>
        /\ out = Return(Some(FileNotFoundText(op.args[1])))
        /\ calls = <<>>
        /\ Current = pre

\* a missing path given to a session that has exchanges and a reviewed code
C6_Witness ==
    /\ op.name = "review_file" /\ PathMissing
    /\ Len(pre.history) > 1
    /\ pre.last_code # None

\* C7: whenever review_file returns one of its error strings, the history and
\* last_code after the call are what they were before it.
C7_ErrorStringKeepsState ==
    (op.name = "review_file" /\ ReturnedErrorString) => Current = pre

\* C8: a collaborator failure is never caught locally: whichever operation
\* made the failing collaborator call raises that failure to its caller.
C8_FailurePropagates ==
    Failed => out = Raise(calls[1].result.exc)

\* C9: explain_last with last_code unset returns the fixed 'No code has been
\* reviewed yet' string, makes no collaborator call, and leaves the history
\* and last_code unchanged.
C9_ExplainNothing ==
    (op.name = "explain_last" /\ pre.last_code = None) =>
        /\ out = Return(Some(NO_CODE_REPLY))
        /\ calls = <<>>
        /\ Current = pre

\* explain_last in a session with earlier exchanges but no review
C9_Witness ==
    /\ op.name = "explain_last"
    /\ pre.last_code = None
    /\ Len(pre.history) > 1

\* C10: explain_last with last_code set (review_code was invoked for some
\* text and no clear_session since) makes exactly one collaborator call whose
\* user message is the fixed follow-up instruction, and when answered
\* lengthens the history by 2 and leaves last_code unchanged.
C10_ExplainAsks ==
    (op.name = "explain_last" /\ pre.last_code # None) =>
        /\ Len(calls) = 1
        /\ Last(calls[1].messages) = Message("user", EXPLAIN_PROMPT)
        /\ last_code = pre.last_code
        /\ Succeeded => Grew(2)

\* the extension of a path as review_file takes it
ExtOf(file_path) == LStrip(SplitExt(file_path), ".")

\* the fixed table of the claim: extension, label
LabelTable ==
    { <<<<"p", "y">>, "Python">>, <<<<"j", "s">>, "JavaScript">>,
      <<<<"t", "s">>, "TypeScript">>, <<<<"j", "a", "v", "a">>, "Java">>,
      <<<<"c", "s">>, "C#">>, <<<<"g", "o">>, "Go">>, <<<<"r", "s">>, "Rust">>,
      <<<<"c", "p", "p">>, "C++">>, <<<<"c">>, "C">>, <<<<"r", "b">>, "Ruby">>,
      <<<<"p", "h", "p">>, "PHP">> }

\* L of the claim: table label, else the extension itself, else "unknown"
L(e) ==
    IF \E t \in LabelTable : t[1] = e
    THEN (CHOOSE t \in LabelTable : t[1] = e)[2]
    ELSE IF e # <<>> THEN Join(e) ELSE "unknown"

\* extensions outside the table, the empty one among them
OtherExts == {<<>>, <<"t", "x", "t">>, <<"P", "Y">>, <<"h">>}

\* the review_file call just made read its file
ReadFile == op.name = "review_file" /\ OpenRead(op.args[1]).ok

\* C11: for a readable file with contents s and extension e, review_file has
\* the return value and the effect on history and last_code of
\* review_code(s, L(e)) run from the same state against the same reply, L
\* being the fixed table, the extension itself outside it, "unknown" when empty.
C11_ReviewFileAsReviewCode ==
    /\ ReadFile =>
          LET same == review_code(pre, OpenRead(op.args[1]).data,
                                  L(ExtOf(op.args[1])), calls[1].result)
          IN  /\ history = same.history
              /\ last_code = same.last_code
              /\ Succeeded => out = same.out
    /\ \A t \in LabelTable : LanguageOf(<<"f", ".">> \o t[1]) = t[2]
    /\ \A e \in OtherExts :
          LanguageOf(IF e = <<>> THEN <<"f">> ELSE <<"f", ".">> \o e) = L(e)

\* an answered review of a .py file over an earlier, different last_code
C11_Witness ==
    /\ ReadFile /\ Succeeded
    /\ op.args[1] = MainPy
    /\ pre.last_code = Some("")

\* h is an initial part of g
IsPrefix(h, g) == Len(h) <= Len(g) /\ SubSeq(g, 1, Len(h)) = h

\* C12: every operation other than clear_session, answered or failed, leaves
\* the history it found as a prefix of the history it leaves: no message is
\* removed, reordered or modified; only clear_session shortens the history.
C12_HistoryOnlyGrows ==
    [][ /\ op'.name # "clear_session" => IsPrefix(history, history')
        /\ Len(history') < Len(history) => op'.name = "clear_session" ]_vars

\* a review_file or explain_last call that lengthened a history with earlier exchanges
C12_Witness ==
    /\ op.name \in {"review_file", "explain_last"}
    /\ Len(pre.history) >= 3
    /\ Len(history) > Len(pre.history)

\* C14: if the collaborator fails during review_code(c, lang), afterwards
\* last_code is c, whatever it was, and the history has grown by exactly the
\* user message carrying the review prompt.
C14_ReviewCodeFailure ==
    (op.name = "review_code" /\ Failed) =>
        /\ last_code = Some(op.args[1])
        /\ history = Append(pre.history,
                            Message("user", ReviewPrompt(op.args[1], op.args[2])))
        /\ out = Raise(calls[1].result.exc)

\* a failed review that overwrites a different last_code
C14_Witness ==
    /\ op.name = "review_code" /\ Failed
    /\ pre.last_code # None
    /\ pre.last_code # Some(op.args[1])

\* C15: on every invocation of the collaborator the messages passed are the
\* whole history at that moment, in order: the system message first, every
\* earlier message since the last clear_session (unanswered turns included),
\* and last the user message appended by the current call.
C15_WholeHistorySent ==
    \A i \in 1..Len(calls) :
        LET sent == calls[i].messages
        IN  /\ IsPrefix(pre.history, sent)
            /\ Len(sent) = Len(pre.history) + 1
            /\ Head(sent) = Message("system", SYSTEM_PROMPT)
            /\ Last(sent).role = "user"
            /\ IsPrefix(sent, history)
            /\ Failed => sent = history

\* an invocation made on a history that holds two unanswered user turns
C15_Witness ==
    /\ calls # <<>>
    /\ Len(pre.history) >= 3
    /\ RolesOf(SubSeq(pre.history, 1, 3)) = <<"system", "user", "user">>

\* every language label a review prompt of the model can carry
PromptLanguages == Languages \cup {LanguageOf(p) : p \in Paths}

\* position i of the history holds the prompt review_code built for code c
IsReviewOf(i, c) ==
    /\ origin[i] = "review_code"
    /\ history[i].role = "user"
    /\ \E lang \in PromptLanguages : history[i].content = ReviewPrompt(c, lang)

\* C18: whenever last_code is set to a text c, the history holds the user
\* message that review_code built around c and no review prompt comes after
\* it; so last_code set implies at least 2 messages, and a history of length
\* 1 implies last_code unset.
C18_LastCodeHasItsPrompt ==
    /\ Len(origin) = Len(history)
    /\ last_code # None =>
          /\ \E i \in 1..Len(history) :
                 /\ IsReviewOf(i, last_code[1])
                 /\ \A j \in (i + 1)..Len(history) : origin[j] # "review_code"
          /\ Len(history) >= 2
    /\ Len(history) = 1 => last_code = None

\* a second review, unanswered, with a code other than the first one's
C18_Witness ==
    /\ last_code # None
    /\ Cardinality({i \in 1..Len(history) : origin[i] = "review_code"}) >= 2
    /\ \E i \in 1..Len(history) :
           origin[i] = "review_code" /\ ~IsReviewOf(i, last_code[1])

\* the number of messages of history h that have role r
CountRole(h, r) == Cardinality({i \in 1..Len(h) : h[i].role = r})

\* C19: every assistant message is immediately preceded by a user message,
\* so assistant messages never outnumber user messages; and while no
\* collaborator call has failed since construction or the last clear_session,
\* the history after the system message alternates user, assistant and its
\* length is odd.
C19_TurnsAlternate ==
    /\ \A i \in 1..Len(history) :
           history[i].role = "assistant" => (i > 1 /\ history[i - 1].role = "user")
    /\ CountRole(history, "assistant") <= CountRole(history, "user")
    /\ failures = 0 =>
          /\ Len(history) % 2 = 1
          /\ \A i \in 2..Len(history) :
                 history[i].role = (IF i % 2 = 0 THEN "user" ELSE "assistant")

\* a review and its explanation, both answered, in a session without failures
C19_Witness ==
    /\ failures = 0
    /\ Len(history) >= 5
    /\ op.name = "explain_last"

\* C20: explain_last invokes the collaborator only if review_code was invoked,
\* directly or through review_file, since construction or the last
\* clear_session; every exchange explain_last opened is preceded in the
\* history by a review exchange.
C20_ExplainAfterReview ==
    /\ (op.name = "explain_last" /\ calls # <<>>) =>
           \E j \in 1..Len(pre.history) : origin[j] = "review_code"
    /\ \A i \in 1..Len(origin) :
           origin[i] = "explain_last" =>
               \E j \in 1..(i - 1) : origin[j] = "review_code"

\* explain_last answered right after a review whose own call had failed
C20_Witness ==
    /\ op.name = "explain_last" /\ Succeeded
    /\ Len(history) = 4
    /\ origin[2] = "review_code"
    /\ origin[3] = "explain_last"

\* the collaborator outcome the call just made met (any, if it met none)
UsedOutcome == IF calls # <<>> THEN calls[1].result ELSE CHOOSE o \in Outcomes : TRUE

\* the call just made changed history and last_code and invoked the
\* collaborator exactly as the single session operation that ends as r
ActedAs(r) == history = r.history /\ last_code = r.last_code /\ calls = r.calls

\* C17: run_single performs at most one operation on the session: review_file
\* when a non-empty file path is given, whatever the code argument; otherwise
\* review_code when non-empty code is given; otherwise it exits with status 1
\* without touching history or last_code and without a collaborator call.
C17_SingleShot ==
    op.name = "run_single" =>
        LET file_path == op.args[1]
            code      == op.args[2]
        IN  /\ TruthyPath(file_path) =>
                   ActedAs(review_file(pre, file_path[1], UsedOutcome))
            /\ (~TruthyPath(file_path) /\ Truthy(code)) =>
                   ActedAs(review_code(pre, code[1], DEFAULT_LANGUAGE, UsedOutcome))
            /\ (~TruthyPath(file_path) /\ ~Truthy(code)) =>
                   /\ out = Raise(SystemExit)
                   /\ Current = pre
                   /\ calls = <<>>
            /\ Len(calls) <= 1

\* both arguments given, the file missing: the code argument is not reviewed
C17_Witness ==
    /\ op.name = "run_single"
    /\ op.args = <<Some(MissingPy), Some("x = 1/0")>>
    /\ Len(pre.history) > 1

\* the client and model name build_client is to return in environment e
ExpectedClient(e) ==
    Some([api_key |-> e.OPENAI_API_KEY[1],
          model |-> IF e.OPENAI_MODEL = None THEN "gpt-4" ELSE e.OPENAI_MODEL[1]])

\* no credential of any kind in the environment
NoCredential(e) ==
    /\ ~Truthy(e.OPENAI_API_KEY)
    /\ e.GITHUB_TOKEN = None
    /\ e.AZURE_OPENAI_ENDPOINT = None

\* construction ended in sys.exit and left no session behind
ExitedEmpty == pc \in {"start", "exited"} /\ history = <<>> /\ client = None

Typed == Strip(line[1])

TypedLower == Lower(Typed)

\* the step just made invoked exactly the session method name with args
Routed(name, args) == op = [name |-> name, args |-> args]

\* the step just made invoked no session method and changed nothing
NothingDone == Routed("none", <<>>) /\ Current = pre /\ calls = <<>>

\* C16: the loop routes each line to exactly one action, matched without
\* regard to case on the stripped line: blank - nothing; exit or quit - the
\* loop ends, nothing else changes; clear - clear_session; explain -
\* explain_last; 'file ' - review_file on the rest; 'review ' - review_code on
\* the rest; any other line - chat with the stripped line, its case kept.
C16_Dispatch ==
    line # None =>
        /\ Typed = <<>> => (NothingDone /\ pc = "repl")
        /\ TypedLower \in {WordExit, WordQuit} => (NothingDone /\ pc = "done")
        /\ TypedLower = WordClear =>
               (Routed("clear_session", <<>>) /\ Current = NewSession /\ calls = <<>>)
        /\ TypedLower = WordExplain =>
               (Routed("explain_last", <<>>) /\ ActedAs(explain_last(pre, UsedOutcome)))
        /\ StartsWith(TypedLower, PrefixFile) =>
               LET path == Strip(From(Typed, 5))
               IN  Routed("review_file", <<path>>)
                   /\ ActedAs(review_file(pre, path, UsedOutcome))
        /\ StartsWith(TypedLower, PrefixReview) =>
               LET code == Join(Strip(From(Typed, 7)))
               IN  Routed("review_code", <<code, DEFAULT_LANGUAGE>>)
                   /\ ActedAs(review_code(pre, code, DEFAULT_LANGUAGE, UsedOutcome))
        /\ ( /\ Typed # <<>>
             /\ TypedLower \notin {WordExit, WordQuit, WordClear, WordExplain}
             /\ ~StartsWith(TypedLower, PrefixFile)
             /\ ~StartsWith(TypedLower, PrefixReview) ) =>
               (Routed("chat", <<Join(Typed)>>) /\ ActedAs(chat(pre, Join(Typed), UsedOutcome)))

\* a file command typed with a capital and extra blanks, after earlier exchanges
C16_Witness ==
    /\ line = Some(LineFileMissing)
    /\ op.name = "review_file"
    /\ Len(pre.history) > 1

====
